---- MODULE Spec2Model ----
(***************************************************************************)
(* Smart-Home-Energy-Monitor: the client-side aggregation helpers, the     *)
(* Dashboard component's view state and render, and the App component's    *)
(* polling loop (src/src/Dashboard.jsx, src/src/App.jsx).                  *)
(*                                                                         *)
(* Units.  Instants are integer milliseconds since an epoch (Date values). *)
(* consumption_kwh is fixed point, in hundredths of a kWh: 5.0 is 500,     *)
(* 5.01 is 501, 1.99 is 199.  A reading keeps the fields the logic reads   *)
(* (device_id, timestamp, consumption_kwh, anomaly_detected); location and *)
(* status are only printed.                                                *)
(***************************************************************************)
EXTENDS Integers, Sequences, FiniteSets, TLC

VARIABLES
    fnIn,       \* arguments of the aggregation helper under test
    fnOut,      \* its result (empty before the call)
    fnDone,     \* whether the helper has been called
    fnName,     \* which helper the specification applies
    apiData,    \* the payload object held by App and passed to Dashboard
    received,   \* the payload as it was received (history, never written)
    cardView,           \* useState('date')
    consumptionFilter,  \* useState(null); "null" stands for null
    timeFrame,          \* useState(1)
    clock,      \* Date.now() at the renders
    dashPhase,  \* "off", "init" (constructed), "mounted", "crashed"
    ui,         \* what the last render of Dashboard computed
    isLoading,  \* useState(true)
    error,      \* useState(null); "null" stands for null
    appPhase,   \* "off", "rendered" (effect not yet run), "mounted", "unmounted"
    appScreen,  \* the branch App's last render returned
    interval,   \* the refresh timer: "none", "set", "cleared"
    calls,      \* the calls of fetchData so far, each at its await or "done"
    deliveries  \* history: the calls that reached setApiData, in that order

aggVars == <<fnIn, fnOut, fnDone, fnName>>
viewVars == <<cardView, consumptionFilter, timeFrame>>
dashVars == <<apiData, received, cardView, consumptionFilter, timeFrame, clock,
              dashPhase, ui>>
appVars == <<isLoading, error, appPhase, appScreen, interval, calls, deliveries>>
vars == <<fnIn, fnOut, fnDone, fnName, apiData, received, cardView,
          consumptionFilter, timeFrame, clock, dashPhase, ui,
          isLoading, error, appPhase, appScreen, interval, calls, deliveries>>

NoSeries == [labels |-> <<>>, values |-> <<>>]

\* ---------------------------------------------------------------- bounds
MaxReadings == 3
NumDevices == 6
MaxViewReadings == 3
MaxSummaries == 2
MaxFetches == 3

\* ------------------------------------------------------- program constants
MsPerMinute == 60 * 1000
MsPerHour == 60 * 60 * 1000
TopN == 5
SuggestHigh == 500
SuggestLow == 200
FilterHigh == 500
FilterLow == 200
DisplayCap == 20
AnomalyCap == 5
Windows == {1, 3, 6, 12, 24}

\* ---------------------------------------------------------------- helpers
Min(S) == CHOOSE x \in S : \A y \in S : x <= y

RECURSIVE SortedKeys(_)
\* Object.keys(obj).sort() over ISO-8601 keys: ascending, no duplicates.
SortedKeys(S) ==
    IF S = {} THEN <<>> ELSE <<Min(S)>> \o SortedKeys(S \ {Min(S)})

RECURSIVE SumSeq(_)
SumSeq(s) == IF s = <<>> THEN 0 ELSE Head(s) + SumSeq(Tail(s))

Range(s) == {s[i] : i \in DOMAIN s}

\* new Date(Date.now() - hours * 60 * 60 * 1000)
StartTime(now, hours) == now - hours * MsPerHour

InWindowInclusive(itemTime, startTime) == itemTime >= startTime
\* if (itemTime > startTime)
InWindow(itemTime, startTime) == itemTime > startTime

\* new Date(y, m, d, h, min).toISOString(): the instant with seconds and
\* milliseconds dropped.  The label is that instant; ISO-8601 strings of
\* four-digit years order as their instants do.  (Local-time fields are
\* taken in a zone whose offset is a whole number of minutes.)
MinuteKey(itemTime) == itemTime - (itemTime % MsPerMinute)

AccumulateOverwrite(old, amount) == amount
\* (obj[key] || 0) + item.consumption_kwh, old = 0 when the key is new
Accumulate(old, amount) == old + amount

\* obj[key] || 0
GetOrZero(obj, key) == IF key \in DOMAIN obj THEN obj[key] ELSE 0

Put(obj, key, val) ==
    [k \in DOMAIN obj \cup {key} |-> IF k = key THEN val ELSE obj[k]]

RECURSIVE ByMinuteLoop(_, _, _)
\* readings.forEach(item => { ... consumptionByMinute[minuteKey] = ... })
ByMinuteLoop(readings, startTime, acc) ==
    IF readings = <<>> THEN acc
    ELSE LET item == Head(readings)
             key == MinuteKey(item.timestamp)
             next == IF InWindow(item.timestamp, startTime)
                     THEN Put(acc, key,
                              Accumulate(GetOrZero(acc, key), item.consumption_kwh))
                     ELSE acc
         IN ByMinuteLoop(Tail(readings), startTime, next)

aggregateConsumptionByTime(readings, hours, now) ==
    LET consumptionByMinute == ByMinuteLoop(readings, StartTime(now, hours), <<>>)
        labels == SortedKeys(DOMAIN consumptionByMinute)
        values == [i \in DOMAIN labels |-> consumptionByMinute[labels[i]]]
    IN [labels |-> labels, values |-> values]

RECURSIVE ByDeviceLoop(_, _, _, _)
\* The object consumptionByDevice and its key order (Object.keys gives
\* string keys in insertion order): sums is the object, order the keys.
ByDeviceLoop(readings, startTime, sums, order) ==
    IF readings = <<>> THEN [sums |-> sums, order |-> order]
    ELSE LET item == Head(readings)
             key == item.device_id
             keep == InWindow(item.timestamp, startTime)
             nsums == IF keep
                      THEN Put(sums, key,
                               Accumulate(GetOrZero(sums, key), item.consumption_kwh))
                      ELSE sums
             norder == IF keep /\ key \notin DOMAIN sums
                       THEN Append(order, key) ELSE order
         IN ByDeviceLoop(Tail(readings), startTime, nsums, norder)

ComesBeforeAscending(sums, a, b) == sums[a] <= sums[b]
\* The comparator (a, b) => sums[b] - sums[a] of a stable sort: a stays
\* before b unless b's sum is strictly larger.
ComesBefore(sums, a, b) == sums[a] >= sums[b]

RECURSIVE InsertDevice(_, _, _)
InsertDevice(sorted, key, sums) ==
    IF sorted = <<>> THEN <<key>>
    ELSE IF ComesBefore(sums, Head(sorted), key)
         THEN <<Head(sorted)>> \o InsertDevice(Tail(sorted), key, sums)
         ELSE <<key>> \o sorted

RECURSIVE SortDevices(_, _, _)
\* Object.keys(consumptionByDevice).sort(comparator), stable
SortDevices(order, sums, sorted) ==
    IF order = <<>> THEN sorted
    ELSE SortDevices(Tail(order), sums, InsertDevice(sorted, Head(order), sums))

TakeAll(s, n) == s
\* s.slice(0, n)
Take(s, n) == SubSeq(s, 1, IF Len(s) < n THEN Len(s) ELSE n)

aggregateConsumptionByDevice(readings, hours, now) ==
    LET r == ByDeviceLoop(readings, StartTime(now, hours), <<>>, <<>>)
        sortedDevices == SortDevices(r.order, r.sums, <<>>)
        labels == Take(sortedDevices, TopN)
        values == [i \in DOMAIN labels |-> r.sums[labels[i]]]
    IN [labels |-> labels, values |-> values]

\* ------------------------------------------- inputs of the helper checks
AllDeviceNames == <<"devA", "devB", "devC", "devD", "devE", "devF", "devG", "devH">>
Devices == {AllDeviceNames[i] : i \in 1..NumDevices}

BaseNow == 25 * MsPerHour
NowChoices == {BaseNow, BaseNow + 30000}

Reading(d, t, c, a) ==
    [device_id |-> d, timestamp |-> t, consumption_kwh |-> c, anomaly_detected |-> a]

SeqsUpTo(S, n) == UNION {[1..k -> S] : k \in 0..n}

\* Readings around the cutoff of the chosen window: one minute before it,
\* exactly at it, 20 s after it (same calendar minute as the cutoff or the
\* minute it falls in), 40 s and 45 s after it, and five minutes ago.
TimeStamps(now, hours) ==
    {StartTime(now, hours) + d : d \in {0 - MsPerMinute, 0, 20000, 40000, 45000}}
        \cup {now - 5 * MsPerMinute}

TimeReadings(now, hours) ==
    {Reading(d, t, c, FALSE) :
        d \in {AllDeviceNames[1]},
        t \in TimeStamps(now, hours),
        c \in {150, 600}}

\* Per device: no reading, one expired reading, one or two fresh ones.
DeviceChoice(d, k, now, hours) ==
    LET fresh == now - 5 * MsPerMinute
        old == StartTime(now, hours)
    IN CASE k = 1 -> <<>>
         [] k = 2 -> <<Reading(d, old, 300, FALSE)>>
         [] k = 3 -> <<Reading(d, fresh, 100, FALSE)>>
         [] k = 4 -> <<Reading(d, fresh, 300, FALSE)>>
         [] OTHER -> <<Reading(d, fresh, 100, FALSE), Reading(d, fresh + 1000, 200, FALSE)>>

RECURSIVE Flatten(_, _, _, _)
Flatten(f, n, now, hours) ==
    IF n = 0 THEN <<>>
    ELSE Flatten(f, n - 1, now, hours)
            \o DeviceChoice(AllDeviceNames[n], f[n], now, hours)

DeviceReadingLists(now, hours) ==
    {Flatten(f, NumDevices, now, hours) : f \in [1..NumDevices -> 1..5]}

\* ------------------------------------------------------------ Dashboard
generateSmartSuggestionInclusive(consumption) ==
    IF consumption >= SuggestHigh THEN "HighUsage"
    ELSE IF consumption >= SuggestLow /\ consumption <= SuggestHigh THEN "ModerateUsage"
    ELSE "LowUsage"
\* The three advisory strings are named by their category.
generateSmartSuggestion(consumption) ==
    IF consumption > SuggestHigh THEN "HighUsage"
    ELSE IF consumption >= SuggestLow /\ consumption <= SuggestHigh THEN "ModerateUsage"
    ELSE "LowUsage"

\* const { recentReadings = [], ... } = apiData: the default stands in for
\* a key that is absent
PropOr(obj, key, default) == IF key \in DOMAIN obj THEN obj[key] ELSE default

KeepsEverything(item) == TRUE
\* item => item.anomaly_detected
IsAnomalous(item) == item.anomaly_detected

\* the three filters on item.consumption_kwh; no filter when null
PassesTier(item, filter) ==
    CASE filter = "high" -> item.consumption_kwh > FilterHigh
      [] filter = "medium" -> item.consumption_kwh >= FilterLow
                                /\ item.consumption_kwh <= FilterHigh
      [] filter = "low" -> item.consumption_kwh < FilterLow
      [] OTHER -> TRUE

StaysBeforeAscending(a, b, field) == a[field] <= b[field]
\* The comparator (a, b) => b[field] - a[field] of a stable sort: a stays
\* before b unless b's field is strictly larger.
StaysBefore(a, b, field) == a[field] >= b[field]

RECURSIVE InsertItem(_, _, _)
InsertItem(sorted, item, field) ==
    IF sorted = <<>> THEN <<item>>
    ELSE IF StaysBefore(Head(sorted), item, field)
         THEN <<Head(sorted)>> \o InsertItem(Tail(sorted), item, field)
         ELSE <<item>> \o sorted

RECURSIVE SortDescending(_, _, _)
\* array.sort((a, b) => b[field] - a[field]), stable
SortDescending(items, field, sorted) ==
    IF items = <<>> THEN sorted
    ELSE SortDescending(Tail(items), field, InsertItem(sorted, Head(items), field))

getFilteredReadings(recentReadings, view, filter) ==
    LET copy == recentReadings
        processed ==
            IF view = "anomalies" THEN SelectSeq(copy, IsAnomalous)
            ELSE IF view = "consumption"
                 THEN SortDescending(copy, "consumption_kwh", <<>>)
                 ELSE SortDescending(copy, "timestamp", <<>>)
    IN IF filter # "null"
       THEN SelectSeq(processed, LAMBDA item : PassesTier(item, filter))
       ELSE processed

\* summary.total_consumption_kwh.toFixed(3), summary.total_cost_usd.toFixed(2):
\* a TypeError when the field is absent
RowThrows(summary) ==
    \/ "total_consumption_kwh" \notin DOMAIN summary
    \/ "total_cost_usd" \notin DOMAIN summary

\* dailySummaries.sort(...) sorts the array it is called on: the payload's
\* own array when the key is present, the fresh default [] otherwise
PayloadAfterRender(props) ==
    IF "dailySummaries" \in DOMAIN props
    THEN [props EXCEPT !["dailySummaries"] = SortDescending(@, "date", <<>>)]
    ELSE props

NoUi ==
    [threw |-> FALSE, trend |-> NoSeries, bar |-> NoSeries, pieLabels |-> {},
     filteredReadings |-> <<>>, anomalyItems |-> <<>>, rows |-> <<>>, cards |-> <<>>]

\* One evaluation of the Dashboard function: the derived data, then the
\* JSX in document order (anomaly list, summary table, reading cards).  The
\* overview cards read todaySummary with ?. and && only and are left out.
Render(props, view, filter, hours, now) ==
    LET recentReadings == PropOr(props, "recentReadings", <<>>)
        dailySummaries == PropOr(props, "dailySummaries", <<>>)
        anomalies == PropOr(props, "anomalies", <<>>)
        consumptionByDevice == PropOr(props, "consumptionByDevice", <<>>)
        filtered == getFilteredReadings(recentReadings, view, filter)
        rows == SortDescending(dailySummaries, "date", <<>>)
        threw == \E i \in DOMAIN rows : RowThrows(rows[i])
        shown == Take(filtered, DisplayCap)
    IN [threw |-> threw,
        trend |-> aggregateConsumptionByTime(recentReadings, hours, now),
        bar |-> aggregateConsumptionByDevice(recentReadings, 1, now),
        pieLabels |-> DOMAIN consumptionByDevice,
        filteredReadings |-> filtered,
        anomalyItems |-> Take(anomalies, AnomalyCap),
        rows |-> IF threw THEN <<>> ELSE rows,
        cards |-> IF threw THEN <<>>
                  ELSE [i \in DOMAIN shown |->
                          [item |-> shown[i],
                           suggestion |-> generateSmartSuggestion(shown[i].consumption_kwh)]]]

\* A state change of Dashboard followed by the render React schedules for it.
Rerender(view, filter, hours) ==
    /\ cardView' = view
    /\ consumptionFilter' = filter
    /\ timeFrame' = hours
    /\ ui' = Render(apiData, view, filter, hours, clock)
    /\ apiData' = PayloadAfterRender(apiData)
    /\ dashPhase' = IF ui'.threw THEN "crashed" ELSE "mounted"
    /\ UNCHANGED <<received, clock>>

\* the first render, with the initial view state
MountDashboard ==
    /\ dashPhase = "init"
    /\ Rerender(cardView, consumptionFilter, timeFrame)
    /\ UNCHANGED aggVars
    /\ UNCHANGED appVars

SetCardViewClearsFilter(view) ==
    /\ dashPhase = "mounted"
    /\ Rerender(view, "null", timeFrame)
    /\ UNCHANGED aggVars
    /\ UNCHANGED appVars
\* onClick={() => setCardView(...)}
SetCardView(view) ==
    /\ dashPhase = "mounted"
    /\ Rerender(view, consumptionFilter, timeFrame)
    /\ UNCHANGED aggVars
    /\ UNCHANGED appVars

SetConsumptionFilterToggles(filter) ==
    /\ dashPhase = "mounted"
    /\ cardView = "consumption"
    /\ Rerender(cardView, IF filter = consumptionFilter THEN "null" ELSE filter, timeFrame)
    /\ UNCHANGED aggVars
    /\ UNCHANGED appVars
\* onClick={() => setConsumptionFilter(...)}: the buttons exist only while
\* cardView === 'consumption'
SetConsumptionFilter(filter) ==
    /\ dashPhase = "mounted"
    /\ cardView = "consumption"
    /\ Rerender(cardView, filter, timeFrame)
    /\ UNCHANGED aggVars
    /\ UNCHANGED appVars

\* onClick={() => setTimeFrame(...)}
SetTimeFrame(hours) ==
    /\ dashPhase = "mounted"
    /\ Rerender(cardView, consumptionFilter, hours)
    /\ UNCHANGED aggVars
    /\ UNCHANGED appVars

CardViews == {"date", "consumption", "anomalies"}
Tiers == {"high", "medium", "low"}

NextDashboard ==
    \/ MountDashboard
    \/ \E view \in CardViews : SetCardView(view)
    \/ \E filter \in Tiers : SetConsumptionFilter(filter)
    \/ \E hours \in Windows : SetTimeFrame(hours)

\* ---------------------------------------------------- Dashboard's inputs
RenderNow == BaseNow + 30000

\* Readings on both sides of the 2.0 and 5.0 kWh boundaries, two of them
\* above 5.0 with different values, anomalous and not, at two instants.
ViewReadings ==
    LET old == RenderNow - 10 * MsPerMinute
        new == RenderNow - 5 * MsPerMinute
    IN {Reading("devA", old, 199, FALSE), Reading("devA", new, 200, TRUE),
        Reading("devB", old, 500, TRUE), Reading("devA", new, 501, FALSE),
        Reading("devB", old, 700, TRUE)}

Summary(date) ==
    [date |-> date, total_consumption_kwh |-> 1234, total_cost_usd |-> 185]

WithPeak(summary) ==
    [k \in DOMAIN summary \cup {"peak_device_daily", "peak_device_consumption_daily"} |->
        IF k = "peak_device_daily" THEN "devA"
        ELSE IF k = "peak_device_consumption_daily" THEN 700
        ELSE summary[k]]

Without(summary, key) == [k \in DOMAIN summary \ {key} |-> summary[k]]

\* Daily summaries of two days: complete, with the optional peak fields, and
\* with one of the two totals absent.
SummaryRecords ==
    {Summary(1), Summary(2), WithPeak(Summary(2)),
     Without(Summary(1), "total_consumption_kwh"),
     Without(Summary(2), "total_cost_usd")}

SomeAnomalies ==
    <<[timestamp |-> RenderNow - 5 * MsPerMinute, device_id |-> "devB",
       anomaly_message |-> "spike"]>>

SomeDeviceTotals == [d \in {"devA", "devB"} |-> IF d = "devA" THEN 1400 ELSE 1900]

PayloadKeys == {"recentReadings", "dailySummaries", "anomalies", "consumptionByDevice"}

FullPayload(readings, summaries) ==
    [k \in PayloadKeys |->
        CASE k = "recentReadings" -> readings
          [] k = "dailySummaries" -> summaries
          [] k = "anomalies" -> SomeAnomalies
          [] OTHER -> SomeDeviceTotals]

Restrict(obj, keys) == [k \in keys |-> obj[k]]

\* Complete payloads whose readings vary; the two summaries arrive oldest
\* first.
ViewPayloads ==
    {FullPayload(readings, <<Summary(1), Summary(2)>>) :
        readings \in SeqsUpTo(ViewReadings, MaxViewReadings)}

\* Payloads with any non-empty subset of the top-level keys (App does not
\* render Dashboard for an object without keys) and summaries of any shape.
ShapePayloads ==
    {Restrict(FullPayload(<<Reading("devA", RenderNow - 5 * MsPerMinute, 501, FALSE),
                            Reading("devB", RenderNow - 5 * MsPerMinute, 199, TRUE)>>,
                          summaries), keys) :
        summaries \in SeqsUpTo(SummaryRecords, MaxSummaries),
        keys \in SUBSET PayloadKeys \ {{}}}

AggIdle ==
    /\ fnName = "none"
    /\ fnIn = [readings |-> <<>>, hours |-> 1, now |-> 0]
    /\ fnOut = NoSeries
    /\ fnDone = FALSE

AppIdle ==
    /\ isLoading = TRUE
    /\ error = "null"
    /\ appPhase = "off"
    /\ appScreen = "none"
    /\ interval = "none"
    /\ calls = <<>>
    /\ deliveries = <<>>

DashIdle ==
    /\ apiData = <<>>
    /\ received = <<>>
    /\ cardView = "date"
    /\ consumptionFilter = "null"
    /\ timeFrame = 1
    /\ clock = 0
    /\ dashPhase = "off"
    /\ ui = NoUi

\* App as it stands while Dashboard is on screen: loaded, no error, the
\* refresh timer set, no call of fetchData in flight.
AppShowingDashboard ==
    /\ isLoading = FALSE
    /\ error = "null"
    /\ appPhase = "mounted"
    /\ appScreen = "dashboard"
    /\ interval = "set"
    /\ calls = <<"done">>
    /\ deliveries = <<>>

Init ==
    /\ AggIdle
    /\ AppShowingDashboard
    /\ apiData \in ViewPayloads \cup ShapePayloads
    /\ received = apiData
    /\ cardView = "date"
    /\ consumptionFilter = "null"
    /\ timeFrame = 1
    /\ clock = RenderNow
    /\ dashPhase = "init"
    /\ ui = NoUi

Spec == Init /\ [][NextDashboard]_vars

\* ------------------------------------------------------------------ App
Null == [null |-> TRUE]
IsNull(data) == "null" \in DOMAIN data
EmptyObject == [k \in {} |-> 0]

\* the three early returns of App and the final <Dashboard apiData=... />
ScreenOf(loading, err, data) ==
    IF loading THEN "loading"
    ELSE IF err # "null" THEN "error"
    ELSE IF IsNull(data) \/ DOMAIN data = {} THEN "nodata"
    ELSE "dashboard"

\* The state setters called by one continuation of fetchData, and the
\* render that follows while App is mounted.  fetchData tests nothing
\* before it calls them: the values are handed over after unmount too.
Commit(data, err, loading) ==
    LET screen == IF appPhase = "mounted" THEN ScreenOf(loading, err, data) ELSE "none"
    IN /\ error' = err
       /\ isLoading' = loading
       /\ appScreen' = screen
       /\ IF screen = "dashboard"
          THEN /\ ui' = Render(data, cardView, consumptionFilter, timeFrame, clock)
               /\ apiData' = PayloadAfterRender(data)
               /\ dashPhase' = IF ui'.threw THEN "crashed" ELSE "mounted"
          ELSE /\ ui' = NoUi
               /\ apiData' = data
               /\ dashPhase' = "off"
       /\ UNCHANGED <<cardView, consumptionFilter, timeFrame, clock>>

\* fetchData(): runs to its first await
StartFetch == calls' = Append(calls, "awaitFetch")

\* useEffect(() => { fetchData(); const interval = setInterval(...); ... }, [])
MountApp ==
    /\ appPhase = "rendered"
    /\ appPhase' = "mounted"
    /\ StartFetch
    /\ interval' = "set"
    /\ UNCHANGED <<isLoading, error, appScreen, deliveries>>
    /\ UNCHANGED <<dashVars, aggVars>>

TimerTickWhenIdle ==
    /\ interval = "set"
    /\ Len(calls) < MaxFetches
    /\ \A id \in DOMAIN calls : calls[id] = "done"
    /\ StartFetch
    /\ UNCHANGED <<isLoading, error, appPhase, appScreen, interval, deliveries>>
    /\ UNCHANGED <<dashVars, aggVars>>
\* setInterval(fetchData, 10000): the timer fires
TimerTick ==
    /\ interval = "set"
    /\ Len(calls) < MaxFetches
    /\ StartFetch
    /\ UNCHANGED <<isLoading, error, appPhase, appScreen, interval, deliveries>>
    /\ UNCHANGED <<dashVars, aggVars>>

\* await fetch(API_URL) settles: a 2xx response goes on to response.json();
\* another status throws; a rejection is caught
FetchSettles(id, outcome) ==
    /\ id \in DOMAIN calls
    /\ calls[id] = "awaitFetch"
    /\ IF outcome = "ok"
       THEN /\ calls' = [calls EXCEPT ![id] = "awaitJson"]
            /\ UNCHANGED <<isLoading, error, appScreen, dashVars>>
       ELSE /\ calls' = [calls EXCEPT ![id] = "done"]
            /\ Commit(apiData, outcome, FALSE)
            /\ UNCHANGED received
    /\ UNCHANGED <<appPhase, interval, deliveries, aggVars>>

\* the record kept of a call that reached setApiData(data)
Delivery(id, data) == [id |-> id, data |-> data, errorThen |-> error]

JsonSettlesClearsError(id, data) ==
    /\ id \in DOMAIN calls
    /\ calls[id] = "awaitJson"
    /\ calls' = [calls EXCEPT ![id] = "done"]
    /\ IF IsNull(data)
       THEN Commit(apiData, "Unexpected token", FALSE)
       ELSE Commit(data, "null", FALSE)
    /\ received' = IF IsNull(data) THEN received ELSE data
    /\ deliveries' = IF IsNull(data) THEN deliveries
                     ELSE Append(deliveries, Delivery(id, data))
    /\ UNCHANGED <<appPhase, interval, aggVars>>
\* await response.json() settles: setApiData(data), or the catch block;
\* then finally.  Null stands for a body that does not parse.
JsonSettles(id, data) ==
    /\ id \in DOMAIN calls
    /\ calls[id] = "awaitJson"
    /\ calls' = [calls EXCEPT ![id] = "done"]
    /\ IF IsNull(data)
       THEN Commit(apiData, "Unexpected token", FALSE)
       ELSE Commit(data, error, FALSE)
    /\ received' = IF IsNull(data) THEN received ELSE data
    /\ deliveries' = IF IsNull(data) THEN deliveries
                     ELSE Append(deliveries, Delivery(id, data))
    /\ UNCHANGED <<appPhase, interval, aggVars>>

\* return () => clearInterval(interval)
UnmountApp ==
    /\ appPhase = "mounted"
    /\ appPhase' = "unmounted"
    /\ interval' = "cleared"
    /\ appScreen' = "none"
    /\ dashPhase' = "off"
    /\ ui' = NoUi
    /\ UNCHANGED <<isLoading, error, calls, deliveries, aggVars>>
    /\ UNCHANGED <<apiData, received, cardView, consumptionFilter, timeFrame, clock>>

FetchFailures == {"HTTP error! status: 500", "Failed to fetch"}

\* what the endpoint can answer with: an object without keys, and two
\* payloads whose readings differ
ServerPayloads ==
    {EmptyObject,
     FullPayload(<<Reading("devA", RenderNow - 5 * MsPerMinute, 501, FALSE)>>,
                 <<Summary(1), Summary(2)>>),
     FullPayload(<<Reading("devB", RenderNow - 5 * MsPerMinute, 199, TRUE)>>,
                 <<Summary(2)>>)}

NextApp ==
    \/ MountApp
    \/ TimerTick
    \/ \E id \in 1..MaxFetches, outcome \in {"ok"} \cup FetchFailures :
          FetchSettles(id, outcome)
    \/ \E id \in 1..MaxFetches, data \in ServerPayloads \cup {Null} :
          JsonSettles(id, data)
    \/ UnmountApp

InitApp ==
    /\ AggIdle
    /\ apiData = Null
    /\ received = Null
    /\ cardView = "date"
    /\ consumptionFilter = "null"
    /\ timeFrame = 1
    /\ clock = RenderNow
    /\ dashPhase = "off"
    /\ ui = NoUi
    /\ isLoading = TRUE
    /\ error = "null"
    /\ appPhase = "rendered"
    /\ appScreen = "loading"
    /\ interval = "none"
    /\ calls = <<>>
    /\ deliveries = <<>>

SpecApp == InitApp /\ [][NextApp]_vars

\* ------------------------------------------------ helper specifications
InitTime ==
    /\ fnName = "aggregateConsumptionByTime"
    /\ \E now \in NowChoices, hours \in Windows :
         \E readings \in SeqsUpTo(TimeReadings(now, hours), MaxReadings) :
            fnIn = [readings |-> readings, hours |-> hours, now |-> now]
    /\ fnOut = NoSeries
    /\ fnDone = FALSE
    /\ DashIdle
    /\ AppIdle

ApplyByTime ==
    /\ fnName = "aggregateConsumptionByTime"
    /\ ~fnDone
    /\ fnDone' = TRUE
    /\ fnOut' = aggregateConsumptionByTime(fnIn.readings, fnIn.hours, fnIn.now)
    /\ UNCHANGED <<fnIn, fnName>>
    /\ UNCHANGED dashVars
    /\ UNCHANGED appVars

NextTime == ApplyByTime

SpecTime == InitTime /\ [][NextTime]_vars

InitDevice ==
    /\ fnName = "aggregateConsumptionByDevice"
    /\ \E now \in {BaseNow + 30000}, hours \in {1} :
         \E readings \in DeviceReadingLists(now, hours) :
            fnIn = [readings |-> readings, hours |-> hours, now |-> now]
    /\ fnOut = NoSeries
    /\ fnDone = FALSE
    /\ DashIdle
    /\ AppIdle

ApplyByDevice ==
    /\ fnName = "aggregateConsumptionByDevice"
    /\ ~fnDone
    /\ fnDone' = TRUE
    /\ fnOut' = aggregateConsumptionByDevice(fnIn.readings, fnIn.hours, fnIn.now)
    /\ UNCHANGED <<fnIn, fnName>>
    /\ UNCHANGED dashVars
    /\ UNCHANGED appVars

NextDevice == ApplyByDevice

SpecDevice == InitDevice /\ [][NextDevice]_vars

\* ------------------------------------------------------ claim formulas
Cutoff == StartTime(fnIn.now, fnIn.hours)
KeptIdx == {i \in DOMAIN fnIn.readings : fnIn.readings[i].timestamp > Cutoff}

RECURSIVE SumOver(_, _)
\* sum of consumption_kwh over the readings at the indices I
SumOver(readings, I) ==
    IF I = {} THEN 0
    ELSE LET i == CHOOSE j \in I : TRUE
         IN readings[i].consumption_kwh + SumOver(readings, I \ {i})

\* C1 (as stated): no bucket returned by aggregateConsumptionByTime has a
\* minute-truncated label at or before the cutoff now - W hours.
C1_LabelsAfterCutoff ==
    fnDone => \A i \in DOMAIN fnOut.labels : fnOut.labels[i] > Cutoff

\* C1 (amended): the buckets are exactly the calendar minutes of the readings
\* strictly newer than the cutoff; a reading at or before the cutoff puts
\* nothing in any bucket (the label itself may be at or before the cutoff).
C1_BucketsOnlyFromFreshReadings ==
    fnDone =>
        /\ Range(fnOut.labels) =
              {MinuteKey(fnIn.readings[i].timestamp) : i \in KeptIdx}
        /\ \A i \in DOMAIN fnOut.labels :
              fnOut.values[i] =
                 SumOver(fnIn.readings,
                         {j \in KeptIdx :
                             MinuteKey(fnIn.readings[j].timestamp) = fnOut.labels[i]})

\* a reading exactly at the cutoff was dropped while a bucket whose label is
\* not after the cutoff was returned
C1_Witness ==
    /\ fnDone
    /\ \E i \in DOMAIN fnIn.readings : fnIn.readings[i].timestamp = Cutoff
    /\ \E i \in DOMAIN fnOut.labels : fnOut.labels[i] <= Cutoff

\* C2: the bucket values sum to the consumption of the readings strictly
\* newer than the cutoff; readings of one calendar minute share one bucket;
\* no reading newer than the cutoff gives an empty series; labels ascend.
C2_ConservationOfMass ==
    fnDone =>
        /\ SumSeq(fnOut.values) = SumOver(fnIn.readings, KeptIdx)
        /\ Len(fnOut.labels) =
              Cardinality({MinuteKey(fnIn.readings[i].timestamp) : i \in KeptIdx})
        /\ Len(fnOut.values) = Len(fnOut.labels)
        /\ (KeptIdx = {} => fnOut.labels = <<>> /\ fnOut.values = <<>>)
        /\ \A i, j \in DOMAIN fnOut.labels : i < j => fnOut.labels[i] < fnOut.labels[j]

\* two fresh readings of one calendar minute were summed into one bucket,
\* next to an expired reading that was left out
C2_Witness ==
    /\ fnDone
    /\ Cardinality(KeptIdx) >= 2
    /\ \E i \in DOMAIN fnIn.readings : i \notin KeptIdx
    /\ Len(fnOut.labels) = 1
    /\ fnOut.values[1] = SumOver(fnIn.readings, KeptIdx)

DevicesInWindow == {fnIn.readings[i].device_id : i \in KeptIdx}
MinOf(a, b) == IF a < b THEN a ELSE b

\* C3 (as stated): the ranking is strictly descending by value and has at
\* most min(5, distinct devices in the window) entries.
C3_StrictlyDescending ==
    fnDone =>
        /\ \A i \in 1..(Len(fnOut.values) - 1) : fnOut.values[i] > fnOut.values[i + 1]
        /\ Len(fnOut.labels) <= MinOf(5, Cardinality(DevicesInWindow))

\* C3 (amended): the ranking is non-increasing by value (devices with equal
\* sums are adjacent) and has at most min(5, distinct devices in the window)
\* entries, each the sum of its device's readings in the window.
C3_NonIncreasing ==
    fnDone =>
        /\ \A i \in 1..(Len(fnOut.values) - 1) : fnOut.values[i] >= fnOut.values[i + 1]
        /\ Len(fnOut.labels) <= MinOf(5, Cardinality(DevicesInWindow))
        /\ Len(fnOut.values) = Len(fnOut.labels)
        /\ \A i \in DOMAIN fnOut.labels :
              /\ fnOut.labels[i] \in DevicesInWindow
              /\ fnOut.values[i] =
                    SumOver(fnIn.readings,
                            {j \in KeptIdx : fnIn.readings[j].device_id = fnOut.labels[i]})

\* six devices in the window were cut to five, two of them with equal sums
C3_Witness ==
    /\ fnDone
    /\ Cardinality(DevicesInWindow) > 5
    /\ Len(fnOut.labels) = 5
    /\ \E i \in 1..4 : fnOut.values[i] = fnOut.values[i + 1]

\* ----------------------------------------------- Dashboard claim formulas
Rendered == dashPhase \in {"mounted", "crashed"}
InputReadings == PropOr(apiData, "recentReadings", <<>>)
Shown == ui.filteredReadings
Count(seq, x) == Cardinality({i \in DOMAIN seq : seq[i] = x})

\* the tier bands as the specification states them (hundredths of a kWh)
InBand(c, tier) ==
    CASE tier = "high" -> c > 500
      [] tier = "medium" -> c >= 200 /\ c <= 500
      [] tier = "low" -> c < 200
      [] OTHER -> TRUE

\* C4 (as stated): whenever cardView is 'anomalies', whatever the tier and
\* the time frame are, the filtered readings are exactly the anomalous
\* readings of the input.
C4_ExactlyTheAnomalous ==
    (Rendered /\ cardView = "anomalies") =>
        Shown = SelectSeq(InputReadings, LAMBDA r : r.anomaly_detected)

\* C4 (amended): whenever cardView is 'anomalies', the filtered readings are
\* exactly the anomalous readings of the input that also lie in the band of
\* the tier in force, in input order; with no tier chosen, exactly the
\* anomalous ones.
C4_AnomalousWithinTier ==
    (Rendered /\ cardView = "anomalies") =>
        Shown = SelectSeq(InputReadings,
                          LAMBDA r : r.anomaly_detected
                                       /\ InBand(r.consumption_kwh, consumptionFilter))

\* the anomaly view under the tier High, chosen earlier in the consumption
\* view, leaves out an anomalous reading of at most 5.0 kWh and keeps another
C4_Witness ==
    /\ dashPhase = "mounted"
    /\ cardView = "anomalies"
    /\ consumptionFilter = "high"
    /\ \E i \in DOMAIN InputReadings :
          InputReadings[i].anomaly_detected /\ InputReadings[i].consumption_kwh <= 500
    /\ Shown # <<>>

\* C5: with cardView 'consumption' and the tier High the filtered readings
\* are exactly the input readings above 5.0 kWh (each as often as the input
\* holds it), in non-increasing order of consumption_kwh.
C5_HighTierSortedDescending ==
    (Rendered /\ cardView = "consumption" /\ consumptionFilter = "high") =>
        /\ \A i \in DOMAIN Shown : Shown[i].consumption_kwh > 500
        /\ \A r \in Range(InputReadings) \cup Range(Shown) :
              Count(Shown, r) = IF r.consumption_kwh > 500
                                THEN Count(InputReadings, r) ELSE 0
        /\ \A i \in 1..(Len(Shown) - 1) :
              Shown[i].consumption_kwh >= Shown[i + 1].consumption_kwh

\* two readings above 5.0 kWh that arrived smallest first are shown largest
\* first, and a third reading was filtered out
C5_Witness ==
    /\ dashPhase = "mounted"
    /\ cardView = "consumption"
    /\ consumptionFilter = "high"
    /\ Len(Shown) = 2
    /\ Len(InputReadings) = 3
    /\ Shown[1].consumption_kwh > Shown[2].consumption_kwh
    /\ \E i, j \in DOMAIN InputReadings :
          /\ i < j
          /\ InputReadings[i] = Shown[2]
          /\ InputReadings[j] = Shown[1]

\* C6: every card's suggestion is exactly one of the three categories,
\* HighUsage iff the value is above 5, ModerateUsage iff it is from 2 to 5,
\* LowUsage iff it is below 2; under a tier filter every card shown has the
\* category of that tier, and outside the anomaly view every reading of
\* that category is shown.
C6_ClassifyBoundaries ==
    /\ Rendered =>
        \A i \in DOMAIN ui.cards :
            LET c == ui.cards[i].item.consumption_kwh
                s == ui.cards[i].suggestion
            IN /\ s \in {"HighUsage", "ModerateUsage", "LowUsage"}
               /\ (s = "HighUsage") <=> (c > 500)
               /\ (s = "ModerateUsage") <=> (c >= 200 /\ c <= 500)
               /\ (s = "LowUsage") <=> (c < 200)
               /\ (consumptionFilter = "high") => (s = "HighUsage")
               /\ (consumptionFilter = "medium") => (s = "ModerateUsage")
               /\ (consumptionFilter = "low") => (s = "LowUsage")
    /\ (Rendered /\ ~ui.threw /\ cardView # "anomalies") =>
          Len(ui.cards) =
             Cardinality({i \in DOMAIN InputReadings :
                            InBand(InputReadings[i].consumption_kwh, consumptionFilter)})

\* cards for 5.0 kWh (moderate), 5.01 kWh (high) and 1.99 kWh (low) side by side
C6_Witness ==
    /\ dashPhase = "mounted"
    /\ \E i, j, k \in DOMAIN ui.cards :
          /\ ui.cards[i].item.consumption_kwh = 500
          /\ ui.cards[i].suggestion = "ModerateUsage"
          /\ ui.cards[j].item.consumption_kwh = 501
          /\ ui.cards[j].suggestion = "HighUsage"
          /\ ui.cards[k].item.consumption_kwh = 199
          /\ ui.cards[k].suggestion = "LowUsage"

\* C7: every collection of the payload has the elements, in the order, in
\* which it was received.
C7_PayloadNeverMutated == apiData = received

\* C8: rendering a payload with absent top-level keys or absent record
\* fields completes without an error.
C8_RenderNeverThrows == dashPhase # "crashed" /\ ~ui.threw

\* C9: a change of one view-state field leaves the other two as they were,
\* and a tier once chosen is applied to the filtered readings in every view.
C9_TierApplied ==
    Rendered => \A i \in DOMAIN Shown : InBand(Shown[i].consumption_kwh, consumptionFilter)

C9_OneFieldAtATime ==
    /\ (cardView' # cardView => UNCHANGED <<consumptionFilter, timeFrame>>)
    /\ (consumptionFilter' # consumptionFilter => UNCHANGED <<cardView, timeFrame>>)
    /\ (timeFrame' # timeFrame => UNCHANGED <<cardView, consumptionFilter>>)

C9_FieldsIndependent == [][C9_OneFieldAtATime]_vars /\ []C9_TierApplied

\* the tier High, chosen in the consumption view, still filters the date view
C9_Witness ==
    /\ dashPhase = "mounted"
    /\ cardView = "date"
    /\ consumptionFilter = "high"
    /\ Shown # <<>>
    /\ Len(Shown) < Len(InputReadings)

\* ------------------------------------------------------ App claim formulas
\* C10: once App is torn down the timer is released, no call of fetchData
\* starts, and apiData, error and isLoading are given no new value, not even
\* by a call that was in flight at teardown.
C10_QuietAfterTeardown ==
    [][appPhase = "unmounted" =>
          /\ UNCHANGED <<apiData, error, isLoading>>
          /\ Len(calls') = Len(calls)
          /\ interval' = "cleared"]_vars

InFlight == {id \in DOMAIN calls : calls[id] # "done"}
LastDelivery == deliveries[Len(deliveries)]

\* C11: the timer starts a call of fetchData whether or not earlier calls are
\* still in flight (whenever the timer is set, a tick can fire), and the
\* payload held is that of the call that reached setApiData last, whichever
\* call started first.
C11_RefreshesUncoordinated ==
    /\ (interval = "set" /\ Len(calls) < MaxFetches) => ENABLED TimerTick
    /\ deliveries # <<>> => received = LastDelivery.data
    /\ \A i \in DOMAIN deliveries :
          deliveries[i].id \in DOMAIN calls /\ calls[deliveries[i].id] = "done"

\* two calls overlapped, the second one delivered its payload first, and the
\* dashboard now shows the different payload of the call that started first
C11_Witness ==
    /\ appPhase = "mounted"
    /\ appScreen = "dashboard"
    /\ Len(deliveries) = 2
    /\ deliveries[1].id = 2
    /\ deliveries[2].id = 1
    /\ deliveries[1].data # deliveries[2].data
    /\ received = deliveries[2].data

\* C12: error, once non-null, stays non-null, and while App is mounted its
\* render then returns the error view, also after a later call has replaced
\* apiData; isLoading is false once any call has completed and never becomes
\* true again.
C12_ErrorShown ==
    /\ (appPhase = "mounted" /\ error # "null") => appScreen = "error"
    /\ error # "null" => dashPhase = "off"
    /\ (\E id \in DOMAIN calls : calls[id] = "done") => ~isLoading

C12_Sticky ==
    /\ error # "null" => error' # "null"
    /\ ~isLoading => ~isLoading'

C12_ErrorIsSticky == [][C12_Sticky]_vars /\ []C12_ErrorShown

\* a call failed, a later call succeeded and replaced apiData, and App still
\* shows the error view
C12_Witness ==
    /\ appPhase = "mounted"
    /\ appScreen = "error"
    /\ error # "null"
    /\ deliveries # <<>>
    /\ LastDelivery.errorThen # "null"
    /\ apiData = LastDelivery.data
    /\ DOMAIN apiData # {}

\* C13: the view state starts as 'date', null, 1; cardView and timeFrame
\* stay among their button values and consumptionFilter among null and the
\* three tiers; consumptionFilter changes only while cardView is
\* 'consumption' and, once a tier, is never null again.
C13_ViewStateTypes ==
    /\ cardView \in {"date", "consumption", "anomalies"}
    /\ consumptionFilter \in {"null", "high", "medium", "low"}
    /\ timeFrame \in {1, 3, 6, 12, 24}
    /\ dashPhase = "init" =>
          cardView = "date" /\ consumptionFilter = "null" /\ timeFrame = 1

C13_TierSteps ==
    /\ consumptionFilter # "null" => consumptionFilter' # "null"
    /\ consumptionFilter' # consumptionFilter => cardView = "consumption"

C13_TierNeverCleared == [][C13_TierSteps]_vars /\ []C13_ViewStateTypes

\* a tier was chosen, then the view and the time frame were changed
C13_Witness ==
    /\ dashPhase = "mounted"
    /\ consumptionFilter = "low"
    /\ cardView = "anomalies"
    /\ timeFrame = 24

====
